---- MODULE Spec2Model ----
(***************************************************************************)
(* Model of the real-time chat page (src/src/app/page.tsx, RealTimePage)   *)
(* and of the credential route it calls (src/unnamed/part_000, POST).      *)
(*                                                                         *)
(* Every variable is a function of the component instance: a mount of the  *)
(* page creates a fresh instance with its own refs (useRef) and its own    *)
(* state (useState).  Each awaited promise of an async function is one     *)
(* action: the environment settles the promise and the code runs to its    *)
(* next await.  State setters are applied as the source writes them.       *)
(***************************************************************************)
EXTENDS Integers, Sequences, FiniteSets, TLC

\* ---------------------------------------------------------------- bounds
MaxMounts == 2
MaxOps == 3

Instances == 1..MaxMounts

\* ------------------------------------------------------------- constants
NULL == 0
NoError == "null"
NoTranscript == "null"
InitError == "Failed to initialize connection. Please try again."
RecordingError == "Failed to start recording."
ChannelError == "Data channel not initialized."
AiErrorText == "AI encountered an error."

VARIABLES
    life,            \* "unborn" | "mounted" | "unmounted"
    initPc,          \* the await at which initRealTimeConnection is suspended
    tokenResponse,   \* the /api/session response, once fetch has resolved
    provider,        \* how the provider's session call ended, inside the route
    pcRef,           \* pcRef.current
    dcRef,           \* dcRef.current
    pcState,         \* the RTCPeerConnection created by the instance
    dcState,         \* readyState of the RTCDataChannel created by the instance
    steps,           \* history: the negotiation steps completed, in order
    requests,        \* history: the external requests issued, in order
    isInitialized,
    isRecording,
    isProcessing,
    error,
    aiMessages,
    userMessages,
    aiTranscript,
    mediaRecorder,   \* state: index into recorders, or NULL
    audioChunks,
    cleanupRecorder, \* mediaRecorder as captured by the mount effect's cleanup
    pendingStarts,   \* startRecording calls suspended at getUserMedia
    recorders,       \* the MediaRecorder objects created, in creation order
    pendingReads,    \* FileReader reads in progress (the blobs being read)
    handed,          \* history: <<recorder, blob>> handed to sendAudio
    sent,            \* history: messages transmitted on the data channel
    inbox,           \* history: messages received on the data channel
    calls            \* history: the handlers invoked, in order

vars == <<life, initPc, tokenResponse, provider, pcRef, dcRef, pcState, dcState, steps,
          requests, isInitialized, isRecording, isProcessing, error,
          aiMessages, userMessages, aiTranscript, mediaRecorder, audioChunks,
          cleanupRecorder, pendingStarts, recorders, pendingReads, handed,
          sent, inbox, calls>>

tokenVars == <<tokenResponse, provider>>
negoVars == <<initPc, tokenResponse, provider, pcRef, dcRef, pcState, dcState, steps,
              requests, isInitialized>>
recVars == <<isRecording, mediaRecorder, audioChunks, pendingStarts,
             recorders, pendingReads, handed>>
chatVars == <<aiMessages, userMessages, aiTranscript, sent, inbox, calls>>

Set(f, m, v) == [f EXCEPT ![m] = v]

\* ------------------------------------------------------ credential route
UpstreamOutcomes == {"session", "errorJson", "errorText", "throws"}

\* POST: the provider's JSON body is returned verbatim with the default
\* status; a body that is not JSON, or a fetch that throws, ends in the catch.
POSTAlwaysOk(upstream) ==
    [status |-> 200,
     body |-> IF upstream \in {"session", "errorJson"} THEN upstream
              ELSE "proxyError"]

POST(upstream) ==
    IF upstream \in {"session", "errorJson"}
    THEN [status |-> 200, body |-> upstream]
    ELSE [status |-> 500, body |-> "proxyError"]

ResponseOkUnchecked(status) == TRUE

\* Response.ok
ResponseOk(status) == status >= 200 /\ status <= 299

HasClientSecretAssumed(body) == TRUE

\* data.client_secret.value: reading .value of undefined throws
HasClientSecret(body) == body = "session"

SdpStatuses == {200, 401}

\* No response yet, or none at all (the fetch was rejected).
NoResponse == [status |-> 0, body |-> "none"]

\* ------------------------------------------------------------------ Init
Init ==
    /\ life = [m \in Instances |-> "unborn"]
    /\ initPc = [m \in Instances |-> "idle"]
    /\ tokenResponse = [m \in Instances |-> NoResponse]
    /\ provider = [m \in Instances |-> "none"]
    /\ pcRef = [m \in Instances |-> NULL]
    /\ dcRef = [m \in Instances |-> NULL]
    /\ pcState = [m \in Instances |-> "none"]
    /\ dcState = [m \in Instances |-> "none"]
    /\ steps = [m \in Instances |-> << >>]
    /\ requests = [m \in Instances |-> << >>]
    /\ isInitialized = [m \in Instances |-> FALSE]
    /\ isRecording = [m \in Instances |-> FALSE]
    /\ isProcessing = [m \in Instances |-> FALSE]
    /\ error = [m \in Instances |-> NoError]
    /\ aiMessages = [m \in Instances |-> << >>]
    /\ userMessages = [m \in Instances |-> << >>]
    /\ aiTranscript = [m \in Instances |-> NoTranscript]
    /\ mediaRecorder = [m \in Instances |-> NULL]
    /\ audioChunks = [m \in Instances |-> << >>]
    /\ cleanupRecorder = [m \in Instances |-> NULL]
    /\ pendingStarts = [m \in Instances |-> << >>]
    /\ recorders = [m \in Instances |-> << >>]
    /\ pendingReads = [m \in Instances |-> << >>]
    /\ handed = [m \in Instances |-> << >>]
    /\ sent = [m \in Instances |-> << >>]
    /\ inbox = [m \in Instances |-> << >>]
    /\ calls = [m \in Instances |-> << >>]

\* ------------------------------------------------- initRealTimeConnection
CatchInitSilent(m) ==
    /\ error' = error
    /\ initPc' = Set(initPc, m, "failed")

\* The catch block of initRealTimeConnection.
CatchInit(m) ==
    /\ error' = Set(error, m, InitError)
    /\ initPc' = Set(initPc, m, "failed")

\* The mount effect: initRealTimeConnection() runs to its first await, and
\* the cleanup closure captures mediaRecorder of the render that ran it.
MountInstance(m) ==
    /\ life[m] = "unborn"
    /\ life' = Set(life, m, "mounted")
    /\ initPc' = Set(initPc, m, "fetchToken")
    /\ requests' = Set(requests, m, Append(requests[m], "token"))
    /\ cleanupRecorder' = Set(cleanupRecorder, m, mediaRecorder[m])
    /\ UNCHANGED <<tokenVars, pcRef, dcRef, pcState, dcState, steps,
                   isInitialized, isProcessing, error, recVars, chatVars>>

\* The first mount of the page.
Mount ==
    MountInstance(1)

\* A later mount of the page, after the previous instance was unmounted.
Remount ==
    \E m \in Instances \ {1} :
        /\ life[m - 1] = "unmounted"
        /\ MountInstance(m)

\* await fetch("/api/session") settles.
TokenResponse(m) ==
    /\ initPc[m] = "fetchToken"
    /\ \E net \in {"reached", "rejected"}, upstream \in UpstreamOutcomes :
        LET response == POST(upstream) IN
        IF net = "reached"
        THEN /\ tokenResponse' = Set(tokenResponse, m, response)
             /\ provider' = Set(provider, m, upstream)
             /\ IF ResponseOk(response.status)
                THEN /\ initPc' = Set(initPc, m, "tokenJson")
                     /\ UNCHANGED error
                ELSE CatchInit(m)
        ELSE /\ CatchInit(m)
             /\ UNCHANGED tokenVars
    /\ UNCHANGED <<life, pcRef, dcRef, pcState, dcState, steps, requests,
                   isInitialized, isProcessing, cleanupRecorder, recVars,
                   chatVars>>

\* await tokenResponse.json() settles; client_secret.value is read, the
\* peer connection is created and getUserMedia is called.
TokenJson(m) ==
    /\ initPc[m] = "tokenJson"
    /\ IF HasClientSecret(tokenResponse[m].body)
       THEN /\ steps' = Set(steps, m, steps[m] \o <<"credential", "peerConnection">>)
            /\ pcRef' = Set(pcRef, m, m)
            /\ pcState' = Set(pcState, m, "open")
            /\ requests' = Set(requests, m, Append(requests[m], "microphone"))
            /\ initPc' = Set(initPc, m, "getUserMedia")
            /\ UNCHANGED error
       ELSE /\ CatchInit(m)
            /\ UNCHANGED <<steps, pcRef, pcState, requests>>
    /\ UNCHANGED <<life, tokenVars, dcRef, dcState, isInitialized,
                   isProcessing, cleanupRecorder, recVars, chatVars>>

\* await getUserMedia settles; addTrack, createDataChannel, createOffer.
LocalStream(m) ==
    /\ initPc[m] = "getUserMedia"
    /\ \E granted \in BOOLEAN :
        IF granted /\ pcState[m] = "open"
        THEN /\ steps' = Set(steps, m, steps[m] \o <<"localTrack", "dataChannel">>)
             /\ dcRef' = Set(dcRef, m, m)
             /\ dcState' = Set(dcState, m, "connecting")
             /\ initPc' = Set(initPc, m, "createOffer")
             /\ UNCHANGED error
        ELSE /\ CatchInit(m)
             /\ UNCHANGED <<steps, dcRef, dcState>>
    /\ UNCHANGED <<life, tokenVars, pcRef, pcState, requests, isInitialized,
                   isProcessing, cleanupRecorder, recVars, chatVars>>

\* await pc.createOffer() settles; setLocalDescription is called.
OfferCreated(m) ==
    /\ initPc[m] = "createOffer"
    /\ \E ok \in BOOLEAN :
        IF ok /\ pcState[m] = "open"
        THEN /\ steps' = Set(steps, m, Append(steps[m], "offer"))
             /\ initPc' = Set(initPc, m, "setLocalDescription")
             /\ UNCHANGED error
        ELSE /\ CatchInit(m)
             /\ UNCHANGED steps
    /\ UNCHANGED <<life, tokenVars, pcRef, dcRef, pcState, dcState, requests,
                   isInitialized, isProcessing, cleanupRecorder, recVars,
                   chatVars>>

\* await pc.setLocalDescription(offer) settles; the offer is posted.
LocalDescriptionSet(m) ==
    /\ initPc[m] = "setLocalDescription"
    /\ \E ok \in BOOLEAN :
        IF ok /\ pcState[m] = "open"
        THEN /\ steps' = Set(steps, m, Append(steps[m], "localDescription"))
             /\ requests' = Set(requests, m, Append(requests[m], "negotiation"))
             /\ initPc' = Set(initPc, m, "fetchSdp")
             /\ UNCHANGED error
        ELSE /\ CatchInit(m)
             /\ UNCHANGED <<steps, requests>>
    /\ UNCHANGED <<life, tokenVars, pcRef, dcRef, pcState, dcState,
                   isInitialized, isProcessing, cleanupRecorder, recVars,
                   chatVars>>

\* History entry for the negotiation endpoint's answer, by its real status.
Answered(status) ==
    IF status \in 200..299 THEN "negotiation" ELSE "negotiationRefused"

\* await fetch(negotiation endpoint) settles.
SdpResponse(m) ==
    /\ initPc[m] = "fetchSdp"
    /\ \E net \in {"reached", "rejected"}, status \in SdpStatuses :
        IF net = "reached" /\ ResponseOk(status)
        THEN /\ steps' = Set(steps, m, Append(steps[m], Answered(status)))
             /\ initPc' = Set(initPc, m, "sdpText")
             /\ UNCHANGED error
        ELSE /\ CatchInit(m)
             /\ UNCHANGED steps
    /\ UNCHANGED <<life, tokenVars, pcRef, dcRef, pcState, dcState, requests,
                   isInitialized, isProcessing, cleanupRecorder, recVars,
                   chatVars>>

\* await sdpResponse.text() settles; setRemoteDescription is called.
SdpText(m) ==
    /\ initPc[m] = "sdpText"
    /\ \E ok \in BOOLEAN :
        IF ok
        THEN /\ initPc' = Set(initPc, m, "setRemoteDescription")
             /\ UNCHANGED error
        ELSE CatchInit(m)
    /\ UNCHANGED <<life, tokenVars, pcRef, dcRef, pcState, dcState, steps,
                   requests, isInitialized, isProcessing, cleanupRecorder,
                   recVars, chatVars>>

\* await pc.setRemoteDescription(answer) settles; setIsInitialized(true).
RemoteDescriptionSet(m) ==
    /\ initPc[m] = "setRemoteDescription"
    /\ \E ok \in BOOLEAN :
        IF ok /\ pcState[m] = "open"
        THEN /\ steps' = Set(steps, m, Append(steps[m], "remoteDescription"))
             /\ isInitialized' = Set(isInitialized, m, TRUE)
             /\ initPc' = Set(initPc, m, "done")
             /\ UNCHANGED error
        ELSE /\ CatchInit(m)
             /\ UNCHANGED <<steps, isInitialized>>
    /\ UNCHANGED <<life, tokenVars, pcRef, dcRef, pcState, dcState, requests,
                   isProcessing, cleanupRecorder, recVars, chatVars>>

\* The transport comes up after the answer is applied: the channel opens.
DataChannelOpen(m) ==
    /\ dcState[m] = "connecting"
    /\ pcState[m] = "open"
    /\ initPc[m] = "done"
    /\ dcState' = Set(dcState, m, "open")
    /\ UNCHANGED <<life, initPc, tokenVars, pcRef, dcRef, pcState, steps,
                   requests, isInitialized, isProcessing, error,
                   cleanupRecorder, recVars, chatVars>>

\* ------------------------------------------------------ unmount (cleanup)
\* recorder.stop() on a recorder that is recording: it becomes inactive and
\* a task is queued that fires dataavailable and then stop.
StopRecorder(rs, r) ==
    IF r \in 1..Len(rs) /\ rs[r].state = "recording"
    THEN [rs EXCEPT ![r].state = "inactive", ![r].stopQueued = TRUE]
    ELSE rs

\* The cleanup returned by the mount effect.
Unmount(m) ==
    /\ life[m] = "mounted"
    /\ life' = Set(life, m, "unmounted")
    /\ IF pcRef[m] # NULL
       THEN /\ pcState' = Set(pcState, m, "closed")
            /\ dcState' = Set(dcState, m,
                              IF dcState[m] = "none" THEN "none" ELSE "closed")
       ELSE UNCHANGED <<pcState, dcState>>
    /\ IF cleanupRecorder[m] # NULL
       THEN recorders' = Set(recorders, m,
                             StopRecorder(recorders[m], cleanupRecorder[m]))
       ELSE UNCHANGED recorders
    /\ UNCHANGED <<initPc, tokenVars, pcRef, dcRef, steps, requests,
                   isInitialized, isRecording, isProcessing, error,
                   mediaRecorder, audioChunks, cleanupRecorder, pendingStarts,
                   pendingReads, handed, chatVars>>

\* ------------------------------------------------------------ the bound
\* What the page was given to do in one lifetime: messages received,
\* recordings asked for, texts submitted.
TextsSent(m) == Len(SelectSeq(sent[m], LAMBDA x : x.type = "message"))

Stimuli(m) == Len(inbox[m]) + Len(calls[m])

\* ------------------------------------------------- inbound realtime events
\* A content entry, an output item and an event, as JSON.parse yields them.
\* An optional field is a presence flag and a value.
Entry(type, hasTranscript, transcript, hasText, text) ==
    [type |-> type, hasTranscript |-> hasTranscript, transcript |-> transcript,
     hasText |-> hasText, text |-> text]

Item(type, hasContent, content) ==
    [type |-> type, hasContent |-> hasContent, content |-> content]

Event(type, hasResponse, hasOutput, output) ==
    [type |-> type, hasResponse |-> hasResponse, hasOutput |-> hasOutput,
     output |-> output]

DoneRich ==
    Event("response.done", TRUE, TRUE,
          << Item("message", TRUE,
                  << Entry("audio", TRUE, "Hello.", FALSE, ""),
                     Entry("audio", FALSE, "", FALSE, ""),
                     Entry("text", FALSE, "", TRUE, "Hi."),
                     Entry("image", FALSE, "", TRUE, "caption") >>),
             Item("function_call", TRUE,
                  << Entry("text", FALSE, "", TRUE, "lookup") >>),
             Item("message", FALSE, << >>) >>)

DoneNoResponse == Event("response.done", FALSE, FALSE, << >>)
DoneNoOutput == Event("response.done", TRUE, FALSE, << >>)
ErrorEvent == Event("response.error", FALSE, FALSE, << >>)
OtherEvent == Event("session.created", FALSE, FALSE, << >>)

\* What arrives on the channel: text that JSON.parse accepts, or not.
Wire(parses, event) == [parses |-> parses, event |-> event]

Inbound ==
    { Wire(FALSE, OtherEvent) } \cup
    { Wire(TRUE, e) : e \in {DoneRich, DoneNoResponse, DoneNoOutput,
                             ErrorEvent, OtherEvent} }

\* The part of the component state that handleRealtimeEvent writes.
ChatState(msgs, transcript, processing) ==
    [aiMessages |-> msgs, aiTranscript |-> transcript, isProcessing |-> processing]

HandleContentAudioOnly(c, st) ==
    IF c.type = "audio" /\ c.hasTranscript
    THEN [st EXCEPT !.aiMessages = Append(@, c.transcript),
                    !.aiTranscript = c.transcript]
    ELSE st

\* The body of item.content.forEach for one entry.
HandleContent(c, st) ==
    IF c.type = "audio"
    THEN IF c.hasTranscript
         THEN [st EXCEPT !.aiMessages = Append(@, c.transcript),
                         !.aiTranscript = c.transcript]
         ELSE st
    ELSE IF c.type = "text"
    THEN IF c.hasText
         THEN [st EXCEPT !.aiMessages = Append(@, c.text),
                         !.aiTranscript = c.text]
         ELSE st
    ELSE st

RECURSIVE ContentForEach(_, _)
ContentForEach(content, st) ==
    IF content = << >> THEN st
    ELSE ContentForEach(Tail(content), HandleContent(Head(content), st))

RECURSIVE OutputForEach(_, _)
OutputForEach(output, st) ==
    IF output = << >> THEN st
    ELSE LET item == Head(output) IN
         OutputForEach(Tail(output),
                       IF item.type = "message" /\ item.hasContent
                       THEN ContentForEach(item.content, st)
                       ELSE st)

\* case "response.done"
HandleDone(event, st) ==
    IF event.hasResponse /\ event.hasOutput
    THEN [OutputForEach(event.output, st) EXCEPT !.isProcessing = FALSE]
    ELSE st

HandleErrorReset(event, st) ==
    [st EXCEPT !.aiMessages = << AiErrorText >>, !.isProcessing = FALSE]

HandleErrorKeepProcessing(event, st) ==
    [st EXCEPT !.aiMessages = Append(@, AiErrorText)]

\* case "response.error"
HandleError(event, st) ==
    [st EXCEPT !.aiMessages = Append(@, AiErrorText), !.isProcessing = FALSE]

handleRealtimeEventFallThrough(event, st) ==
    IF event.type = "response.done" THEN HandleDone(event, st)
    ELSE HandleError(event, st)

handleRealtimeEvent(event, st) ==
    IF event.type = "response.done" THEN HandleDone(event, st)
    ELSE IF event.type = "response.error" THEN HandleError(event, st)
    ELSE st

\* The "message" listener of the data channel: parse, dispatch, swallow.
DataChannelMessage(m) ==
    /\ dcState[m] = "open"
    /\ Stimuli(m) < MaxOps
    /\ \E data \in Inbound :
        LET st == ChatState(aiMessages[m], aiTranscript[m], isProcessing[m])
            after == IF data.parses THEN handleRealtimeEvent(data.event, st)
                     ELSE st
        IN /\ inbox' = Set(inbox, m, Append(inbox[m], data))
           /\ aiMessages' = Set(aiMessages, m, after.aiMessages)
           /\ aiTranscript' = Set(aiTranscript, m, after.aiTranscript)
           /\ isProcessing' = Set(isProcessing, m, after.isProcessing)
    /\ UNCHANGED <<life, negoVars, error, userMessages, sent, calls,
                   cleanupRecorder, recVars>>

\* ---------------------------------------------------------------- sending
Pad == 64

\* window.btoa over the byte string built by the loop: sextets, "=" as Pad.
RECURSIVE arrayBufferToBase64(_)
arrayBufferToBase64(bytes) ==
    IF Len(bytes) = 0 THEN << >>
    ELSE IF Len(bytes) = 1
    THEN << bytes[1] \div 4, (bytes[1] % 4) * 16, Pad, Pad >>
    ELSE IF Len(bytes) = 2
    THEN << bytes[1] \div 4, (bytes[1] % 4) * 16 + bytes[2] \div 16,
            (bytes[2] % 16) * 4, Pad >>
    ELSE << bytes[1] \div 4, (bytes[1] % 4) * 16 + bytes[2] \div 16,
            (bytes[2] % 16) * 4 + bytes[3] \div 64, bytes[3] % 64 >>
         \o arrayBufferToBase64(SubSeq(bytes, 4, Len(bytes)))

\* new Blob(parts) and reader.readAsArrayBuffer: the parts' bytes in order.
RECURSIVE BlobBytes(_)
BlobBytes(parts) ==
    IF parts = << >> THEN << >>
    ELSE Head(parts).bytes \o BlobBytes(Tail(parts))

\* RTCDataChannel.send throws InvalidStateError unless readyState is "open".
CanSend(m) == dcState[m] = "open"

AudioEnvelope(parts) ==
    [type |-> "audio", data |-> arrayBufferToBase64(BlobBytes(parts))]

TextEnvelope(text) ==
    [type |-> "message", data |-> [text |-> text]]

AudioSentEntry == << "You: Audio sent" >>
TextEntry(text) == << "You: " >> \o text

\* sendAudio up to reader.readAsArrayBuffer(audioBlob).
sendAudio(m, parts) ==
    IF dcRef[m] = NULL
    THEN /\ isProcessing' = Set(isProcessing, m, FALSE)
         /\ error' = Set(error, m, ChannelError)
         /\ UNCHANGED pendingReads
    ELSE /\ pendingReads' = Set(pendingReads, m, Append(pendingReads[m], parts))
         /\ UNCHANGED <<isProcessing, error>>

RemoveAt(s, i) == SubSeq(s, 1, i - 1) \o SubSeq(s, i + 1, Len(s))

\* reader.onload of sendAudio.
ReaderLoaded(m) ==
    /\ \E i \in 1..Len(pendingReads[m]) :
        /\ pendingReads' = Set(pendingReads, m, RemoveAt(pendingReads[m], i))
        /\ IF dcRef[m] # NULL /\ CanSend(m)
           THEN /\ sent' = Set(sent, m,
                               Append(sent[m], AudioEnvelope(pendingReads[m][i])))
                /\ userMessages' = Set(userMessages, m,
                                       Append(userMessages[m], AudioSentEntry))
           ELSE UNCHANGED <<sent, userMessages>>
    /\ UNCHANGED <<life, negoVars, isProcessing, error, aiMessages,
                   aiTranscript, inbox, calls, cleanupRecorder, isRecording,
                   mediaRecorder, audioChunks, pendingStarts, recorders, handed>>

\* -------------------------------------------------------------- recording
StartButtonAlwaysInitialized(m) == ~isRecording[m]

\* disabled={isRecording || !isInitialized} of the Start Recording button.
StartButtonEnabled(m) == ~(isRecording[m] \/ ~isInitialized[m])
StopButtonEnabled(m) == isRecording[m]

startRecordingUnguarded(m) ==
    pendingStarts' = Set(pendingStarts, m,
                         Append(pendingStarts[m], audioChunks[m]))

\* startRecording up to await getUserMedia; the call keeps the audioChunks
\* of the render whose handler was clicked.
startRecording(m) ==
    IF pcRef[m] = NULL
    THEN UNCHANGED pendingStarts
    ELSE pendingStarts' = Set(pendingStarts, m,
                              Append(pendingStarts[m], audioChunks[m]))

\* startRecording() is invoked.
CallStartRecording(m) ==
    /\ life[m] = "mounted"
    /\ Stimuli(m) < MaxOps
    /\ calls' = Set(calls, m, Append(calls[m], "startRecording"))
    /\ startRecording(m)
    /\ UNCHANGED <<life, negoVars, isProcessing, error, aiMessages,
                   userMessages, aiTranscript, sent, inbox, cleanupRecorder,
                   isRecording, mediaRecorder, audioChunks, recorders,
                   pendingReads, handed>>

\* onClick of the Start Recording button: a disabled button fires nothing.
ClickStartRecording(m) ==
    /\ StartButtonEnabled(m)
    /\ CallStartRecording(m)

NewRecorder(closureChunks) ==
    [state |-> "recording", stopQueued |-> FALSE,
     closureChunks |-> closureChunks, delivered |-> << >>]

\* The rest of startRecording, once getUserMedia settles.
RecordingStream(m) ==
    /\ \E i \in 1..Len(pendingStarts[m]), granted \in BOOLEAN :
        /\ pendingStarts' = Set(pendingStarts, m, RemoveAt(pendingStarts[m], i))
        /\ IF granted
           THEN /\ recorders' = Set(recorders, m,
                       Append(recorders[m], NewRecorder(pendingStarts[m][i])))
                /\ mediaRecorder' = Set(mediaRecorder, m, Len(recorders[m]) + 1)
                /\ audioChunks' = Set(audioChunks, m, << >>)
                /\ isRecording' = Set(isRecording, m, TRUE)
                /\ isProcessing' = Set(isProcessing, m, TRUE)
                /\ UNCHANGED error
           ELSE /\ error' = Set(error, m, RecordingError)
                /\ UNCHANGED <<recorders, mediaRecorder, audioChunks,
                               isRecording, isProcessing>>
    /\ UNCHANGED <<life, negoVars, chatVars, cleanupRecorder, pendingReads,
                   handed>>

\* stopRecording: stop() of a recorder that is already inactive returns or
\* throws InvalidStateError, depending on the browser.
stopRecording(m) ==
    IF mediaRecorder[m] = NULL
    THEN UNCHANGED <<recorders, isRecording>>
    ELSE IF recorders[m][mediaRecorder[m]].state = "recording"
    THEN /\ recorders' = Set(recorders, m,
                             StopRecorder(recorders[m], mediaRecorder[m]))
         /\ isRecording' = Set(isRecording, m, FALSE)
    ELSE /\ UNCHANGED recorders
         /\ \E throws \in BOOLEAN :
               isRecording' = Set(isRecording, m, throws /\ isRecording[m])

ClickStopRecording(m) ==
    /\ life[m] = "mounted"
    /\ StopButtonEnabled(m)
    /\ stopRecording(m)
    /\ UNCHANGED <<life, negoVars, isProcessing, error, chatVars,
                   cleanupRecorder, mediaRecorder, audioChunks, pendingStarts,
                   pendingReads, handed>>

\* The data a recorder hands over when it stops: nothing or some bytes.
ChunkBytes(r) == { << >>, << 76 + r, 255 >> }

Chunk(r, bytes) == [recorder |-> r, bytes |-> bytes]

\* new Blob(audioChunks) in recorder.onstop: audioChunks is the constant of
\* the render in which startRecording was called.
OnStopBlob(rec) == rec.closureChunks

\* The task queued by stop(): ondataavailable, then onstop.
RecorderStopped(m) ==
    /\ \E r \in 1..Len(recorders[m]) :
        /\ recorders[m][r].stopQueued
        /\ \E bytes \in ChunkBytes(r) :
            LET chunk == Chunk(r, bytes)
                kept == IF Len(bytes) > 0 THEN << chunk >> ELSE << >>
                audioBlob == OnStopBlob(recorders[m][r])
            IN /\ audioChunks' = Set(audioChunks, m, audioChunks[m] \o kept)
               /\ recorders' = Set(recorders, m,
                      [recorders[m] EXCEPT ![r].stopQueued = FALSE,
                                           ![r].delivered = @ \o kept])
               /\ handed' = Set(handed, m,
                      Append(handed[m], [recorder |-> r, parts |-> audioBlob]))
               /\ sendAudio(m, audioBlob)
    /\ UNCHANGED <<life, negoVars, chatVars, cleanupRecorder, isRecording,
                   mediaRecorder, pendingStarts>>

\* ------------------------------------------------------------ text submit
FormEnabled(m) == ~(~isInitialized[m] \/ isProcessing[m])

RawInputs == { << "h", "i" >>, << " ", "h", "i", " " >>, << " " >> }

\* String.prototype.trim
RECURSIVE Trim(_)
Trim(s) ==
    IF s = << >> THEN s
    ELSE IF Head(s) = " " THEN Trim(Tail(s))
    ELSE IF s[Len(s)] = " " THEN Trim(SubSeq(s, 1, Len(s) - 1))
    ELSE s

sendTextMessage(m, text) ==
    IF dcRef[m] = NULL \/ ~CanSend(m)
    THEN UNCHANGED <<sent, userMessages, isProcessing>>
    ELSE /\ sent' = Set(sent, m, Append(sent[m], TextEnvelope(text)))
         /\ userMessages' = Set(userMessages, m,
                                Append(userMessages[m], TextEntry(text)))
         /\ isProcessing' = Set(isProcessing, m, TRUE)

\* onSubmit of the text form.
SubmitText(m) ==
    /\ life[m] = "mounted"
    /\ FormEnabled(m)
    /\ Stimuli(m) < MaxOps
    /\ \E raw \in RawInputs :
        LET message == Trim(raw) IN
        IF message # << >>
        THEN /\ calls' = Set(calls, m, Append(calls[m], "sendTextMessage"))
             /\ sendTextMessage(m, message)
        ELSE UNCHANGED <<sent, userMessages, isProcessing, calls>>
    /\ UNCHANGED <<life, negoVars, error, aiMessages, aiTranscript, inbox,
                   cleanupRecorder, recVars>>

Lifecycle(m) ==
    \/ TokenResponse(m)
    \/ TokenJson(m)
    \/ LocalStream(m)
    \/ OfferCreated(m)
    \/ LocalDescriptionSet(m)
    \/ SdpResponse(m)
    \/ SdpText(m)
    \/ RemoteDescriptionSet(m)
    \/ DataChannelOpen(m)
    \/ Unmount(m)

Interaction(m) ==
    \/ DataChannelMessage(m)
    \/ ClickStartRecording(m)
    \/ RecordingStream(m)
    \/ ClickStopRecording(m)
    \/ RecorderStopped(m)
    \/ ReaderLoaded(m)
    \/ SubmitText(m)

\* One lifetime of the page.
Next ==
    \/ Mount
    \/ \E m \in Instances : Lifecycle(m)
    \/ \E m \in Instances : Interaction(m)

Spec == Init /\ [][Next]_vars

\* Successive lifetimes of the page, the user idle.
NextRemount ==
    \/ Mount
    \/ Remount
    \/ \E m \in Instances : Lifecycle(m)

SpecRemount == Init /\ [][NextRemount]_vars

\* One lifetime of the page, startRecording also invoked where the button
\* that calls it is disabled.
NextCalls ==
    \/ Next
    \/ \E m \in Instances : CallStartRecording(m)

SpecCalls == Init /\ [][NextCalls]_vars

\* ================================================================= claims
IsPrefix(s, t) == Len(s) <= Len(t) /\ SubSeq(t, 1, Len(s)) = s

NegotiationOrder ==
    << "credential", "peerConnection", "localTrack", "dataChannel", "offer",
       "localDescription", "negotiation", "remoteDescription" >>

\* C1: once a step of initRealTimeConnection has failed, the error state is
\* the initialization error and the session is not marked established, in
\* that state and in every later one.
InitFailureSurfaces ==
    \A m \in Instances :
        initPc[m] = "failed" => error[m] = InitError /\ ~isInitialized[m]

\* C1 witness: the negotiation request was refused after the offer was
\* committed, on a mounted page.
InitFailedAtNegotiation ==
    \E m \in Instances :
        /\ initPc[m] = "failed"
        /\ life[m] = "mounted"
        /\ steps[m] = SubSeq(NegotiationOrder, 1, 6)
        /\ requests[m] = << "token", "microphone", "negotiation" >>

\* C2: the steps complete in the negotiation order, none before the one
\* before it, and the session is marked established only when all of them
\* have completed, the negotiation endpoint having answered with success.
EstablishedOnlyAfterAllSteps ==
    \A m \in Instances :
        /\ IsPrefix(steps[m], NegotiationOrder)
        /\ isInitialized[m] => steps[m] = NegotiationOrder

\* C2 witness: an established session.
SessionEstablished ==
    \E m \in Instances : isInitialized[m] /\ initPc[m] = "done"

\* C3 (as claimed): when initRealTimeConnection has run to its end on an
\* unmounted page, the peer connection it created is closed.
TeardownClosesEveryConnection ==
    \A m \in Instances :
        life[m] = "unmounted" /\ initPc[m] \in {"done", "failed"}
            => pcState[m] # "open"

\* C4 (as claimed): the unmount cleanup stops every recorder that is
\* recording when the page unmounts.
TeardownStopsRecording ==
    [][ \A m \in Instances :
            life[m] = "mounted" /\ life'[m] = "unmounted"
                => \A r \in 1..Len(recorders[m]) :
                       recorders[m][r].state = "recording"
                           => recorders'[m][r].state = "inactive" ]_vars

\* C5 (as claimed): at most one peer connection and at most one data
\* channel exist that are not closed.
AtMostOneConnection ==
    /\ Cardinality({ m \in Instances : pcState[m] = "open" }) <= 1
    /\ Cardinality({ m \in Instances :
                        dcState[m] \in {"connecting", "open"} }) <= 1

\* ---- C6
OnlyDone(box) ==
    \A i \in DOMAIN box : box[i].parses /\ box[i].event.type = "response.done"

RECURSIVE EntriesInItems(_)
EntriesInItems(items) ==
    IF items = << >> THEN 0
    ELSE Len(Head(items).content) + EntriesInItems(Tail(items))

RECURSIVE TotalEntries(_)
TotalEntries(box) ==
    IF box = << >> THEN 0
    ELSE EntriesInItems(Head(box).event.output) + TotalEntries(Tail(box))

Carried(c) ==
    IF c.type = "audio" /\ c.hasTranscript THEN << c.transcript >>
    ELSE IF c.type = "text" /\ c.hasText THEN << c.text >>
    ELSE << >>

RECURSIVE CarriedInContent(_)
CarriedInContent(content) ==
    IF content = << >> THEN << >>
    ELSE Carried(Head(content)) \o CarriedInContent(Tail(content))

RECURSIVE CarriedInItems(_)
CarriedInItems(items) ==
    IF items = << >> THEN << >>
    ELSE (IF Head(items).type = "message" THEN CarriedInContent(Head(items).content)
          ELSE << >>) \o CarriedInItems(Tail(items))

RECURSIVE CarriedValues(_)
CarriedValues(box) ==
    IF box = << >> THEN << >>
    ELSE CarriedInItems(Head(box).event.output) \o CarriedValues(Tail(box))

\* C6 (as claimed): after response.done events only, the AI transcript is
\* as long as the count of all content entries of the events received.
AiLengthIsAllContentEntries ==
    \A m \in Instances :
        OnlyDone(inbox[m]) => Len(aiMessages[m]) = TotalEntries(inbox[m])

\* C6 (amended): after response.done events only, the AI transcript is the
\* transcripts of the audio entries and the texts of the text entries that
\* the message items of the events carry, in arrival order.
AiTranscriptIsCarriedEntries ==
    \A m \in Instances :
        OnlyDone(inbox[m]) => aiMessages[m] = CarriedValues(inbox[m])

\* C6 witness: two response.done events with content were handled.
TwoDoneEventsHandled ==
    \E m \in Instances :
        /\ OnlyDone(inbox[m])
        /\ Len(inbox[m]) >= 2
        /\ aiMessages[m] = << "Hello.", "Hi.", "Hello.", "Hi." >>

\* C7: every transition leaves each transcript a prefix of its new value.
TranscriptsAppendOnly ==
    [][ \A m \in Instances :
            /\ IsPrefix(aiMessages[m], aiMessages'[m])
            /\ IsPrefix(userMessages[m], userMessages'[m]) ]_vars

\* C7 witness: both transcripts have grown, the AI one by an error entry
\* after an earlier entry, the user one by a text and an audio placeholder.
BothTranscriptsGrown ==
    \E m \in Instances :
        /\ Len(aiMessages[m]) >= 2
        /\ aiMessages[m][Len(aiMessages[m])] = AiErrorText
        /\ Len(userMessages[m]) >= 1

Last(s) == s[Len(s)]

\* The step in which instance m receives a message.
Receives(m) == Len(inbox'[m]) = Len(inbox[m]) + 1

\* C8 (as claimed): handling a response.done event leaves the processing
\* flag false, whatever the payload.
DoneClearsProcessing ==
    [][ \A m \in Instances :
            ( /\ Receives(m)
              /\ Last(inbox'[m]).parses
              /\ Last(inbox'[m]).event.type = "response.done" )
                => ~isProcessing'[m] ]_vars

\* C9 (as claimed): the object handed to sendAudio when a recorder stops
\* holds exactly the chunks that recorder delivered, in delivery order.
StopAssemblesOwnChunks ==
    \A m \in Instances :
        \A i \in DOMAIN handed[m] :
            handed[m][i].parts = recorders[m][handed[m][i].recorder].delivered

\* The step in which sendAudio runs for instance m.
SendAudioRuns(m) == Len(handed'[m]) = Len(handed[m]) + 1

\* C10 (as claimed): when sendAudio runs while the data channel is not
\* open, nothing is transmitted, the processing flag is cleared, an error
\* is set and the user transcript is unchanged.
SendAudioNeedsOpenChannel ==
    [][ \A m \in Instances :
            SendAudioRuns(m) /\ dcState[m] # "open"
                => /\ sent'[m] = sent[m]
                   /\ userMessages'[m] = userMessages[m]
                   /\ ~isProcessing'[m]
                   /\ error'[m] # NoError ]_vars

Called(m, handler) == \E i \in DOMAIN calls[m] : calls[m][i] = handler

\* C11: while the peer connection reference is null, whatever calls of
\* startRecording were made, no microphone stream is being acquired for a
\* recording, no recorder exists, the recording and processing flags are
\* false and the error state is not one that startRecording sets.
NoRecordingWithoutPeerConnection ==
    \A m \in Instances :
        pcRef[m] = NULL
            => /\ pendingStarts[m] = << >>
               /\ recorders[m] = << >>
               /\ ~isRecording[m]
               /\ ~isProcessing[m]
               /\ error[m] \in {NoError, InitError}

\* C11 witness: startRecording was invoked while the credential request
\* was still pending, the peer connection reference null.
StartCalledWithoutPeerConnection ==
    \E m \in Instances :
        /\ pcRef[m] = NULL
        /\ initPc[m] = "fetchToken"
        /\ Called(m, "startRecording")

\* C12: while the session is not established, no recording has begun: no
\* microphone stream is being acquired for one, no recorder exists, and
\* neither the recording nor the processing flag is set.
NoRecordingBeforeEstablished ==
    \A m \in Instances :
        ~isInitialized[m]
            => /\ pendingStarts[m] = << >>
               /\ recorders[m] = << >>
               /\ ~isRecording[m]
               /\ ~isProcessing[m]

\* C12 witness: the page is mounted and the peer connection exists, so
\* that startRecording's own test would pass, and the negotiation was
\* aborted: the session is not established.
AbortedAfterPeerConnection ==
    \E m \in Instances :
        /\ life[m] = "mounted"
        /\ pcRef[m] # NULL
        /\ pcState[m] = "open"
        /\ initPc[m] = "failed"
        /\ ~isInitialized[m]

\* The step in which instance m invokes a handler.
Calls(m, handler) == calls'[m] = Append(calls[m], handler)

SubmittedTexts == { Trim(raw) : raw \in RawInputs } \ { << >> }

\* C13 (as claimed): a call of sendTextMessage with the data channel absent
\* changes neither the user transcript, nor the processing flag, nor what
\* was transmitted; a call with the channel present, the session
\* initialized and not processing transmits exactly the text's message,
\* appends exactly "You: " + text to the user transcript, sets the
\* processing flag and leaves the AI transcript unchanged.
SendTextThroughChannelGuard ==
    [][ \A m \in Instances :
            Calls(m, "sendTextMessage")
                => /\ dcRef[m] = NULL
                        => /\ userMessages'[m] = userMessages[m]
                           /\ isProcessing'[m] = isProcessing[m]
                           /\ sent'[m] = sent[m]
                   /\ dcRef[m] # NULL /\ isInitialized[m] /\ ~isProcessing[m]
                        => /\ \E text \in SubmittedTexts :
                                /\ sent'[m] = Append(sent[m], TextEnvelope(text))
                                /\ userMessages'[m] =
                                       Append(userMessages[m], TextEntry(text))
                           /\ isProcessing'[m]
                           /\ aiMessages'[m] = aiMessages[m] ]_vars

AudioEnvelopesSent(m) == Len(SelectSeq(sent[m], LAMBDA x : x.type = "audio"))

AudioEntries(m) == Len(SelectSeq(userMessages[m], LAMBDA x : x = AudioSentEntry))

\* C14 (as claimed): with the data channel present, once the reads started
\* by sendAudio have finished, every stop of a recording has transmitted
\* exactly one audio envelope and appended exactly one "You: Audio sent"
\* entry to the user transcript, whatever was buffered.
EveryStopSendsOneEnvelope ==
    \A m \in Instances :
        dcRef[m] # NULL /\ pendingReads[m] = << >>
            => /\ AudioEnvelopesSent(m) = Len(handed[m])
               /\ AudioEntries(m) = Len(handed[m])

\* C15: once the credential request has returned a non-success status, the
\* peer connection and data channel references are null, nothing was
\* requested but the credential (no microphone stream, no negotiation),
\* and the error state is the initialization error.
CredentialFailureAbortsBeforeConnection ==
    \A m \in Instances :
        tokenResponse[m] # NoResponse /\ tokenResponse[m].status \notin 200..299
            => /\ pcRef[m] = NULL /\ pcState[m] = "none"
               /\ dcRef[m] = NULL /\ dcState[m] = "none"
               /\ requests[m] = << "token" >>
               /\ pendingStarts[m] = << >>
               /\ error[m] = InitError

\* C15 witness: the credential request returned HTTP 500 to a mounted page.
CredentialRequestReturned500 ==
    \E m \in Instances :
        /\ life[m] = "mounted"
        /\ tokenResponse[m].status = 500
        /\ initPc[m] = "failed"

\* The message received in this step is one the dispatcher has no case for.
Unhandled(wire) ==
    \/ ~wire.parses
    \/ wire.event.type \notin {"response.done", "response.error"}

\* C16: receiving a message that does not parse, or whose type is neither
\* response.done nor response.error, changes neither transcript, nor the
\* latest AI utterance, nor a flag, nor the error state, and leaves the
\* channel as it was, so that later messages are still handled.
UnhandledMessageChangesNothing ==
    [][ \A m \in Instances :
            Receives(m) /\ Unhandled(Last(inbox'[m]))
                => /\ aiMessages'[m] = aiMessages[m]
                   /\ userMessages'[m] = userMessages[m]
                   /\ aiTranscript'[m] = aiTranscript[m]
                   /\ isProcessing'[m] = isProcessing[m]
                   /\ isRecording'[m] = isRecording[m]
                   /\ isInitialized'[m] = isInitialized[m]
                   /\ error'[m] = error[m]
                   /\ dcState'[m] = dcState[m] ]_vars

\* C16 witness: after a message that does not parse and one of an unknown
\* type, a response.done event was handled.
HandledAfterUnhandled ==
    \E m \in Instances :
        /\ Len(inbox[m]) = 3
        /\ ~inbox[m][1].parses
        /\ inbox[m][2].parses /\ inbox[m][2].event.type = "session.created"
        /\ inbox[m][3] = Wire(TRUE, DoneRich)
        /\ aiMessages[m] = << "Hello.", "Hi." >>

\* C17: receiving a response.error event, in any state, appends exactly one
\* "AI encountered an error." entry at the end of the AI transcript, makes
\* the processing flag false, and leaves the user transcript and the error
\* state unchanged.
ErrorEventAppendsOneEntry ==
    [][ \A m \in Instances :
            Receives(m) /\ Last(inbox'[m]) = Wire(TRUE, ErrorEvent)
                => /\ aiMessages'[m] = Append(aiMessages[m], AiErrorText)
                   /\ isProcessing'[m] = FALSE
                   /\ userMessages'[m] = userMessages[m]
                   /\ error'[m] = error[m] ]_vars

\* C17 witness: a response.error event was handled while the only recorder
\* was recording, that is, after startRecording had set the processing flag.
ErrorEventHandledWhileProcessing ==
    \E m \in Instances :
        /\ Len(recorders[m]) = 1
        /\ recorders[m][1].state = "recording"
        /\ isRecording[m]
        /\ inbox[m] = << Wire(TRUE, ErrorEvent) >>
        /\ aiMessages[m] = << AiErrorText >>
        /\ ~isProcessing[m]

\* C18 as stated: whatever the outcome of the provider's session call, the
\* status of the route's own response is 2xx.
RouteNeverReturnsNon2xx ==
    \A m \in Instances :
        provider[m] # "none" => tokenResponse[m].status \in 200..299

\* C18, amended: the route answers 200 with the provider's body verbatim
\* exactly when the provider's answer had a JSON body, whether it was a
\* success or not; when the body is not JSON or the request throws, the
\* route answers 500 with its own error body.
RouteStatusFollowsProviderBody ==
    \A m \in Instances :
        provider[m] # "none"
            => IF provider[m] \in {"session", "errorJson"}
               THEN tokenResponse[m] = [status |-> 200, body |-> provider[m]]
               ELSE tokenResponse[m] = [status |-> 500, body |-> "proxyError"]

\* C18 witness: the provider's session call threw and the route answered.
ProviderCallThrew ==
    \E m \in Instances :
        /\ provider[m] = "throws"
        /\ tokenResponse[m] # NoResponse

\* C19: whenever the provider rejects the session call with a JSON body that
\* carries no client_secret, the route answers 200 and the client still
\* aborts before creating a peer connection: the peer connection reference
\* stays null, the session is never marked established, and once the body
\* has been read the error state is set.
RejectedSessionAbortsBeforeConnection ==
    \A m \in Instances :
        provider[m] = "errorJson"
            => /\ tokenResponse[m].status = 200
               /\ pcRef[m] = NULL /\ pcState[m] = "none"
               /\ ~isInitialized[m]
               /\ steps[m] = << >>
               /\ initPc[m] \in {"tokenJson", "failed"}
               /\ initPc[m] = "failed" => error[m] = InitError

\* C19 witness: the rejected session's body was read and the catch ran.
RejectedSessionBodyRead ==
    \E m \in Instances :
        /\ provider[m] = "errorJson"
        /\ tokenResponse[m].status = 200
        /\ initPc[m] = "failed"
        /\ error[m] = InitError

\* The recorders of instance m that were started and have not stopped.
ActiveRecorders(m) ==
    {i \in 1..Len(recorders[m]) : recorders[m][i].state = "recording"}

\* C20: at most one recording is active at any time, whatever the
\* interleaving of startRecording calls, their pending microphone requests
\* and stopRecording calls; and a recorder that is active is the one held in
\* mediaRecorder, the one a later stopRecording stops.
AtMostOneActiveRecorder ==
    \A m \in Instances :
        /\ Cardinality(ActiveRecorders(m)) <= 1
        /\ \A i \in ActiveRecorders(m) : mediaRecorder[m] = i
====
